---- MODULE Spec2Model ----
(***************************************************************************)
(* Open-Upload backend: the access-control and request-accounting layer.   *)
(*                                                                         *)
(* The database tables (user, project, apikey, file, apiusage), the blob   *)
(* directory and the requests in flight are the state.  A request occupies *)
(* a slot and advances through its dependencies (bearer resolution, role   *)
(* check, API key resolution) and its handler one database step at a time, *)
(* so that requests of several workers interleave on the shared database.  *)
(* The step that ends a request frees its slot and leaves the request,     *)
(* with its status code, in `resp`.                                        *)
(*                                                                         *)
(* Tables are functions from the ids of the stored rows to the rows; the   *)
(* database is SQLite (database.py), whose integer primary key of a new    *)
(* row is the largest stored id plus one and whose foreign keys are not    *)
(* enforced.                                                               *)
(***************************************************************************)
EXTENDS Integers, Sequences, FiniteSets, TLC

\* ---------------------------------------------------------------- bounds
\* requests served in one behaviour
MaxRequests == 2
\* requests in flight at once
MaxSlots == 2
\* largest id or token a request names
MaxArg == 2
\* ticks of the clock
MaxClock == 1
\* disk / database failures in one behaviour
MaxFaults == 1
\* usage rows of the log that the statistics start from
MaxRows == 2

UIDs == {"u1", "u2"}
NoUid == "-"
Slots == 1..MaxSlots
FileNames == {"a"}
RoleSets == {{}, {"whitelisted"}, {"developer"}}

\* ---------------------------------------------------------------- state
VARIABLES
    users,      \* user table: firebase_uid -> number of rows with that uid
    projects,   \* project table: id -> row
    apikeys,    \* apikey table: id -> row
    files,      \* file table: id -> row
    apiusage,   \* apiusage table: the sequence of rows, id = position
    blobs,      \* db/uploads: the set of paths that hold a file
    now,        \* datetime.utcnow(), in ticks: the file stamp and the date of
                \* a usage row tell two instants of one tick apart no further
    faults,     \* number of persistence / disk failures so far
    started,    \* number of requests received so far
    req,        \* the request in each slot
    resp,       \* the request that the last step answered, if any
    deleted,    \* history: ids of the files whose deletion was answered 204
    script      \* the client that runs the end-to-end sequence, if any

vars == <<users, projects, apikeys, files, apiusage, blobs, now, faults,
          started, req, resp, deleted, script>>
db == <<users, projects, apikeys, files, apiusage, blobs>>

\* ---------------------------------------------------------------- helpers
Max(S) == CHOOSE x \in S : \A y \in S : y <= x

\* SQLite rowid of the next inserted row.
NextId(table) == IF DOMAIN table = {} THEN 1 ELSE Max(DOMAIN table) + 1

Insert(table, row) == table @@ (NextId(table) :> row)

Delete(table, id) == [i \in DOMAIN table \ {id} |-> table[i]]

\* session.get(Model, id) is not None
Exists(table, id) == id \in DOMAIN table

BearerOps == {"create_project", "get_project", "delete_project",
              "get_project_stats", "create_api_key", "get_api_keys",
              "delete_api_key"}
RoleOps == {"upload_file_frontend", "list_files_frontend",
            "delete_file_frontend"}
KeyOps == {"upload_file", "list_files", "delete_file", "get_project_info"}
\* get_api_key_stats sits on a role-gated router and also takes the API key
BothOps == {"get_api_key_stats"}
\* the role-gated routes of routes/usage.py
UsageOps == {"get_dashboard_stats", "get_usage_stats"}
\* the route without authentication
PublicOps == {"get_file_public"}

\* the operations that take no id
NoArgOps == {"create_project", "upload_file", "list_files",
             "get_project_info", "get_api_key_stats", "get_dashboard_stats"}

IdleReq == [pc |-> "idle", op |-> "none", cred |-> NoUid, roles |-> {},
            token |-> 0, arg |-> 0, user |-> NoUid, proj |-> 0, key |-> 0,
            path |-> <<>>, sess |-> "active", status |-> 0, tracked |-> 0,
            result |-> {}, made |-> 0, seen |-> "none", note |-> "none",
            credk |-> "none", detail |-> "none", stats |-> <<>>]

\* the ids a request of the operation may name
Args(op) == IF op \in NoArgOps THEN {0}
            ELSE IF op \in {"get_api_keys", "get_usage_stats"} THEN 0..MaxArg
            ELSE 1..MaxArg

NewReq(op, u, t, a) ==
    [IdleReq EXCEPT !.pc = "new", !.op = op, !.cred = u, !.token = t,
                    !.arg = a]

\* the request leaves with this status code
Done(q, code) == [q EXCEPT !.pc = "done", !.status = code]

\* raise HTTPException(status_code=code, detail=text)
Raise(q, code, text) == [Done(q, code) EXCEPT !.detail = text]

\* the step leaves request r as q
Reply(r, q) ==
    /\ req' = [req EXCEPT ![r] = IF q.pc = "done" THEN IdleReq ELSE q]
    /\ resp' = IF q.pc = "done" THEN q ELSE IdleReq

\* the places of a step where one more disk or database failure may happen
FaultPoints(places) == IF faults < MaxFaults THEN {"none"} \cup places
                       ELSE {"none"}

Hit(fp) == IF fp = "none" THEN faults ELSE faults + 1

\* Session.commit(): fails when the database fails, and on a session whose
\* transaction an earlier failed flush has left rolled back.
CommitOk(q, f) == q.sess = "active" /\ ~f

\* no end-to-end sequence is running
NoScript == [step |-> 0, U |-> NoUid, P |-> 0, K |-> 0, F |-> 0]

KeyRow(id, active, uid, pid) ==
    [key |-> id, is_active |-> active, last_used_at |-> -1,
     user_firebase_uid |-> uid, project_id |-> pid]

FileRow(path, pid, uid) ==
    [storage_path |-> path, project_id |-> pid, user_firebase_uid |-> uid]

\* The databases a behaviour starts from: (A) one tenant whose key may have
\* been deactivated, (B) two tenants with a key each, the first with a stored
\* file, (C) one tenant whose second project was deleted while its key was
\* being created (create_api_key_check, delete_project,
\* create_api_key_insert).
Seeds ==
    \/ /\ users = [u \in UIDs |-> IF u = "u1" THEN 1 ELSE 0]
       /\ projects = (1 :> [user_firebase_uid |-> "u1"])
       /\ \E a \in BOOLEAN : apikeys = (1 :> KeyRow(1, a, "u1", 1))
       /\ files = <<>>
       /\ blobs = {}
    \/ /\ users = [u \in UIDs |-> 1]
       /\ projects = (1 :> [user_firebase_uid |-> "u1"])
                     @@ (2 :> [user_firebase_uid |-> "u2"])
       /\ apikeys = (1 :> KeyRow(1, TRUE, "u1", 1))
                    @@ (2 :> KeyRow(2, TRUE, "u2", 2))
       /\ files = (1 :> FileRow(<<1, 0, "a">>, 1, "u1"))
       /\ blobs = {<<1, 0, "a">>}
    \/ /\ users = [u \in UIDs |-> IF u = "u1" THEN 1 ELSE 0]
       /\ projects = (1 :> [user_firebase_uid |-> "u1"])
       /\ apikeys = (1 :> KeyRow(1, TRUE, "u1", 2))
       /\ files = <<>>
       /\ blobs = {}

Init ==
    /\ Seeds
    /\ apiusage = <<>>
    /\ now = 0
    /\ faults = 0
    /\ started = 0
    /\ req = [r \in Slots |-> IdleReq]
    /\ resp = IdleReq
    /\ deleted = {}
    /\ script = NoScript

\* the requests of the operations `ops` that may arrive in slot r, the first
\* free slot, while fewer than n requests have been received
Arrivals(r, ops, n) ==
    IF /\ req[r].pc = "idle"
       /\ \A s \in Slots : s < r => req[s].pc # "idle"
       /\ started < n
    THEN {q \in {NewReq(op, u, t, a) : op \in ops, u \in UIDs \cup {NoUid},
                                       t \in 0..MaxArg, a \in 0..MaxArg} :
            /\ q.cred = NoUid <=> q.op \in KeyOps \cup PublicOps
            /\ q.op \in BearerOps \cup RoleOps \cup UsageOps \cup PublicOps
                  => q.token = 0
            /\ q.arg \in Args(q.op)}
    ELSE {}

Count(q) == started' = IF q.pc = "new" THEN started + 1 ELSE started

Tick ==
    /\ now < MaxClock
    /\ now' = now + 1
    /\ resp' = IdleReq
    /\ UNCHANGED <<db, faults, started, req, deleted, script>>

\* ------------------------------------------------- auth.py: bearer resolution
\* select(User).where(User.firebase_uid == uid).first() is not None
UserFound(uid) == users[uid] > 0

\* a user table without the constraint accepts every INSERT
NoUniqueConstraint(uid) == FALSE

\* the primary key / unique constraint of user.firebase_uid rejects the INSERT
UniqueViolation(uid) == users[uid] > 0

\* get_current_db_user, the lookup, for a request of the set Q
ResolveLookupOf(r, Q) ==
    /\ \E q \in Q :
         /\ Reply(r, IF UserFound(q.cred)
                     THEN [q EXCEPT !.pc = "handler", !.user = q.cred]
                     ELSE [q EXCEPT !.pc = "insert"])
         /\ Count(q)
    /\ UNCHANGED <<db, now, deleted, faults>>

ResolveLookup(r, ops, n) ==
    /\ ResolveLookupOf(r, Arrivals(r, ops \cap BearerOps, n))
    /\ UNCHANGED script

\* get_current_db_user, session.add(new_user); session.commit()
ResolveInsert(r) ==
    /\ req[r].pc = "insert"
    /\ \E fp \in FaultPoints({"commit"}) :
         LET q == req[r] IN
           IF UniqueViolation(q.cred) \/ ~CommitOk(q, fp = "commit")
           THEN \* except Exception: session.rollback(); raise 500
                /\ users' = users
                /\ faults' = Hit(fp)
                /\ Reply(r, Done([q EXCEPT !.note = IF fp = "commit"
                                      THEN "dbfail" ELSE "duplicate"], 500))
           ELSE /\ users' = [users EXCEPT ![q.cred] = @ + 1]
                /\ faults' = faults
                /\ Reply(r, [q EXCEPT !.pc = "handler", !.user = q.cred,
                                      !.note = "created"])
    /\ UNCHANGED <<projects, apikeys, files, apiusage, blobs, now, deleted,
                   started, script>>

\* ------------------------------------- Firebase_helpers.py: role_based_access
FirebaseUser(uid, roles) ==
    [uid |-> uid, email |-> uid, roles |-> roles, name |-> uid]

MissingRoles(required, roles) ==
    IF "developer" \in roles THEN {} ELSE required \ roles

\* check_role: the HTTPException(403) is raised inside the try block, whose
\* `except Exception` turns it into HTTPException(500)
RoleStatus(required, roles) ==
    IF MissingRoles(required, roles) # {} THEN 500 ELSE 0

\* check_role for a request of the set Q whose identity holds one of the
\* role lists R
CheckRoleOf(r, Q, R) ==
    /\ \E q \in Q, roles \in R :
         LET st == RoleStatus({"whitelisted"}, roles) IN
           /\ Reply(r, IF st # 0
                       THEN Done([q EXCEPT !.note = "norole",
                                           !.roles = roles], st)
                       ELSE [q EXCEPT !.roles = roles,
                                      !.pc = IF q.op \in BothOps
                                             THEN "keyauth" ELSE "handler"])
           /\ Count(q)
    /\ UNCHANGED <<db, now, deleted, faults>>

CheckRole(r, ops, n) ==
    /\ CheckRoleOf(r, Arrivals(r, ops \cap (RoleOps \cup UsageOps \cup BothOps),
                                n), RoleSets)
    /\ UNCHANGED script

\* ------------------------------------------- auth.py: API key resolution
\* a lookup by ApiKey.key alone
FindKeyOfAnyState(token) ==
    LET hits == {k \in DOMAIN apikeys : apikeys[k].key = token} IN
      IF hits = {} THEN 0 ELSE CHOOSE k \in hits : TRUE

\* select(ApiKey).where(ApiKey.key == api_key, ApiKey.is_active == True).first()
\* (0: no row)
FindActiveKey(token) ==
    LET hits == {k \in DOMAIN apikeys :
                   apikeys[k].key = token /\ apikeys[k].is_active} IN
      IF hits = {} THEN 0 ELSE CHOOSE k \in hits : TRUE

\* a resolution that trusts the foreign keys of the key row
OwnerAndProjectAssumed(k) == FALSE

\* not user or not project
MissingOwnerOrProject(k) ==
    \/ ~UserFound(apikeys[k].user_firebase_uid)
    \/ ~Exists(projects, apikeys[k].project_id)

\* what the X-API-Key header of a request is, against the stored keys
Credential(token) ==
    IF token = 0 THEN "missing"
    ELSE IF \A k \in DOMAIN apikeys : apikeys[k].key # token THEN "unknown"
    ELSE IF \A k \in DOMAIN apikeys :
               apikeys[k].key = token => ~apikeys[k].is_active THEN "inactive"
    ELSE IF \E k \in DOMAIN apikeys :
               /\ apikeys[k].key = token
               /\ \/ users[apikeys[k].user_firebase_uid] = 0
                  \/ apikeys[k].project_id \notin DOMAIN projects
         THEN "dangling"
    ELSE "valid"

\* get_api_key_user for a request of the set Q
KeyAuthOf(r, Q) ==
    /\ \E q0 \in Q :
         LET q == [q0 EXCEPT !.credk = Credential(q0.token)]
             k == FindActiveKey(q.token) IN
           /\ Count(q0)
           /\ IF q.token = 0 \/ k = 0
              THEN /\ Reply(r, IF q.token = 0
                               THEN Raise(q, 401, "API key is required")
                               ELSE Raise(q, 401, "Invalid or inactive API key"))
                   /\ UNCHANGED <<apikeys, faults>>
              ELSE \E fp \in FaultPoints({"commit"}) :
                     IF ~CommitOk(q, fp = "commit")
                     THEN \* session.commit() of last_used_at raises
                          /\ Reply(r, Done([q EXCEPT !.sess = "inactive",
                                       !.note = "lastused_failed"], 500))
                          /\ faults' = Hit(fp)
                          /\ apikeys' = apikeys
                     ELSE /\ apikeys' = [apikeys EXCEPT
                                           ![k].last_used_at = now]
                          /\ faults' = faults
                          /\ Reply(r, IF MissingOwnerOrProject(k)
                               THEN Raise(q, 401,
                                 "API key is invalid (missing user or project)")
                               ELSE [q EXCEPT !.pc = "handler",
                                       !.user = apikeys[k].user_firebase_uid,
                                       !.proj = apikeys[k].project_id,
                                       !.key = k])
    /\ UNCHANGED <<users, projects, files, apiusage, blobs, now, deleted>>

\* the request in slot r that passed check_role and awaits get_api_key_user
Pending(r) == IF req[r].pc = "keyauth" THEN {req[r]} ELSE {}

KeyAuth(r, ops, n) ==
    /\ KeyAuthOf(r, Arrivals(r, ops \cap KeyOps, n) \cup Pending(r))
    /\ UNCHANGED script

\* --------------------------------------------------- ownership of a resource
\* the relation of the row `id` of a table to the principal `uid`
Ownership(table, id, uid) ==
    IF id \notin DOMAIN table THEN "absent"
    ELSE IF table[id].user_firebase_uid # uid THEN "foreign" ELSE "own"

\* a check of the project's existence alone
ProjectAccessOfAnyone(pid, uid) == IF ~Exists(projects, pid) THEN 404 ELSE 0

\* projects.py get_project / delete_project / get_project_stats and
\* api_keys.py create_api_key: 404 if not project, 403 if not the owner
ProjectAccess(pid, uid) ==
    IF ~Exists(projects, pid) THEN 404
    ELSE IF projects[pid].user_firebase_uid # uid THEN 403 ELSE 0

\* api_keys.py get_api_keys, the project filter
FilterAccess(pid, uid) ==
    IF ~Exists(projects, pid) \/ projects[pid].user_firebase_uid # uid
    THEN 404 ELSE 0

\* api_keys.py delete_api_key
KeyAccess(kid, uid) ==
    IF ~Exists(apikeys, kid) THEN 404
    ELSE IF apikeys[kid].user_firebase_uid # uid THEN 403 ELSE 0

\* rows that reference the project; session.delete(project) sets their
\* project_id to NULL, which the NOT NULL columns reject (no cascade is
\* configured on the relationships of models.py)
ProjectChildren(pid) ==
    [keys |-> {k \in DOMAIN apikeys : apikeys[k].project_id = pid},
     files |-> {i \in DOMAIN files : files[i].project_id = pid},
     usage |-> {i \in DOMAIN apiusage : apiusage[i].project_id = pid}]

HasChildren(pid) ==
    LET c == ProjectChildren(pid) IN
      c.keys # {} \/ c.files # {} \/ c.usage # {}

\* usage rows that reference the API key
KeyChildren(kid) == {i \in DOMAIN apiusage : apiusage[i].api_key_id = kid}

\* ----------------------------------------------------------- routes/projects.py
\* create_project with a body whose user_firebase_uid is one of `owners`
create_project_for(r, owners) ==
    /\ req[r].pc = "handler" /\ req[r].op = "create_project"
    /\ \E owner \in owners :
         LET q == req[r] IN
           IF owner # q.user
           THEN /\ Reply(r, Done(q, 403))
                /\ projects' = projects
           ELSE /\ projects' = Insert(projects, [user_firebase_uid |-> owner])
                /\ Reply(r, Done([q EXCEPT !.made = NextId(projects)], 201))
    /\ UNCHANGED <<users, apikeys, files, apiusage, blobs, now, deleted, faults,
                   started, script>>

create_project(r) == create_project_for(r, UIDs)

\* get_project and get_project_stats
get_project(r) ==
    /\ req[r].pc = "handler"
    /\ req[r].op \in {"get_project", "get_project_stats"}
    /\ LET q == [req[r] EXCEPT
                   !.seen = Ownership(projects, req[r].arg, req[r].user)]
           st == ProjectAccess(q.arg, q.user) IN
         Reply(r, Done(q, IF st # 0 THEN st ELSE 200))
    /\ UNCHANGED <<db, now, deleted, faults, started, script>>

delete_project(r) ==
    /\ req[r].pc = "handler" /\ req[r].op = "delete_project"
    /\ LET q == [req[r] EXCEPT
                   !.seen = Ownership(projects, req[r].arg, req[r].user)]
           st == ProjectAccess(q.arg, q.user) IN
         IF st # 0
         THEN /\ Reply(r, Done(q, st))
              /\ projects' = projects
         ELSE IF HasChildren(q.arg)
         THEN /\ Reply(r, Done([q EXCEPT !.sess = "inactive"], 500))
              /\ projects' = projects
         ELSE /\ projects' = Delete(projects, q.arg)
              /\ Reply(r, Done(q, 204))
    /\ UNCHANGED <<users, apikeys, files, apiusage, blobs, now, deleted, faults,
                   started, script>>

\* ----------------------------------------------------------- routes/api_keys.py
\* create_api_key, up to the ownership check
create_api_key_check(r) ==
    /\ req[r].pc = "handler" /\ req[r].op = "create_api_key"
    /\ LET q == [req[r] EXCEPT
                   !.seen = Ownership(projects, req[r].arg, req[r].user)]
           st == ProjectAccess(q.arg, q.user) IN
         Reply(r, IF st # 0 THEN Done(q, st) ELSE [q EXCEPT !.pc = "insert_key"])
    /\ UNCHANGED <<db, now, deleted, faults, started, script>>

\* create_api_key, session.add(new_key); session.commit(); generate_api_key
\* yields a token no stored key has, here the id of the new row
create_api_key_insert(r) ==
    /\ req[r].pc = "insert_key"
    /\ LET q == req[r] IN
         /\ apikeys' = Insert(apikeys,
                          KeyRow(NextId(apikeys), TRUE, q.user, q.arg))
         /\ Reply(r, Done([q EXCEPT !.made = NextId(apikeys)], 201))
    /\ UNCHANGED <<users, projects, files, apiusage, blobs, now, deleted, faults,
                   started, script>>

get_api_keys(r) ==
    /\ req[r].pc = "handler" /\ req[r].op = "get_api_keys"
    /\ LET q0 == req[r]
           mine == {k \in DOMAIN apikeys :
                      apikeys[k].user_firebase_uid = q0.user} IN
         IF q0.arg = 0
         THEN Reply(r, Done([q0 EXCEPT !.result = mine], 200))
         ELSE LET q == [q0 EXCEPT
                          !.seen = Ownership(projects, q0.arg, q0.user)]
                  st == FilterAccess(q.arg, q.user) IN
                Reply(r, IF st # 0 THEN Done(q, st)
                         ELSE Done([q EXCEPT !.result =
                                {k \in mine : apikeys[k].project_id = q.arg}],
                              200))
    /\ UNCHANGED <<db, now, deleted, faults, started, script>>

\* a deletion that takes the usage rows of the key with it
delete_api_key_cascade(r) ==
    /\ req[r].pc = "handler" /\ req[r].op = "delete_api_key"
    /\ LET q == [req[r] EXCEPT
                   !.seen = Ownership(apikeys, req[r].arg, req[r].user)]
           st == KeyAccess(q.arg, q.user) IN
         IF st # 0
         THEN /\ Reply(r, Done(q, st))
              /\ UNCHANGED <<apikeys, apiusage>>
         ELSE /\ apikeys' = Delete(apikeys, q.arg)
              /\ apiusage' = SelectSeq(apiusage,
                                 LAMBDA row : row.api_key_id # q.arg)
              /\ Reply(r, Done(q, 204))
    /\ UNCHANGED <<users, projects, files, blobs, now, deleted, faults,
                   started, script>>

delete_api_key(r) ==
    /\ req[r].pc = "handler" /\ req[r].op = "delete_api_key"
    /\ LET q == [req[r] EXCEPT
                   !.seen = Ownership(apikeys, req[r].arg, req[r].user)]
           st == KeyAccess(q.arg, q.user) IN
         IF st # 0
         THEN /\ Reply(r, Done(q, st))
              /\ apikeys' = apikeys
         ELSE IF KeyChildren(q.arg) # {}
         THEN /\ Reply(r, Done([q EXCEPT !.sess = "inactive"], 500))
              /\ apikeys' = apikeys
         ELSE /\ apikeys' = Delete(apikeys, q.arg)
              /\ Reply(r, Done(q, 204))
    /\ UNCHANGED <<users, projects, files, apiusage, blobs, now, deleted, faults,
                   started, script>>

\* -------------------------------------------------------------- routes/files.py
\* UPLOAD_DIR / str(project.id) / f"{timestamp}_{file.filename}"
StoragePath(pid, stamp, name) == <<pid, stamp, name>>

EndpointOf(q) ==
    IF q.op = "upload_file" THEN <<"/api/v1/files/upload", 0>>
    ELSE IF q.op = "list_files" THEN <<"/api/v1/files/list", 0>>
    ELSE <<"/api/v1/files/", q.arg>>

\* a recorder that stores 200 whatever the outcome
UsageRowOfSuccess(q, code) ==
    [endpoint |-> EndpointOf(q), status_code |-> 200, timestamp |-> now,
     response_time |-> 1, user_firebase_uid |-> q.user, project_id |-> q.proj,
     api_key_id |-> q.key]

\* track_api_usage: the row it adds for request q
UsageRow(q, code) ==
    [endpoint |-> EndpointOf(q), status_code |-> code, timestamp |-> now,
     response_time |-> 1, user_firebase_uid |-> q.user, project_id |-> q.proj,
     api_key_id |-> q.key]

\* the `except Exception` clause of the API-key file handlers:
\* track_api_usage(status_code=500); raise
Except(r, q) ==
    IF CommitOk(q, FALSE)
    THEN /\ apiusage' = Append(apiusage, UsageRow(q, 500))
         /\ Reply(r, Done([q EXCEPT !.tracked = @ + 1], 500))
    ELSE /\ apiusage' = apiusage
         /\ Reply(r, Done(q, 500))

\* track_api_usage(status_code=code) as the last statement of the try block
\* before the handler answers code; f: its session.commit() fails
Track(r, q, code, f) ==
    IF CommitOk(q, f)
    THEN /\ apiusage' = Append(apiusage, UsageRow(q, code))
         /\ Reply(r, Done([q EXCEPT !.tracked = @ + 1], code))
    ELSE Except(r, [q EXCEPT !.sess = "inactive", !.note = "track_failed"])

\* upload_file, up to the blob written
upload_file_write(r) ==
    /\ req[r].pc = "handler" /\ req[r].op = "upload_file"
    /\ \E name \in FileNames, fp \in FaultPoints({"disk"}), left \in BOOLEAN :
         LET q == req[r]
             path == StoragePath(q.proj, now, name) IN
           /\ faults' = Hit(fp)
           /\ IF fp = "disk"
              THEN \* open / copyfileobj raises; the file may have been created
                   /\ blobs' = IF left THEN blobs \cup {path} ELSE blobs
                   /\ Except(r, [q EXCEPT !.note = "disk_failed"])
              ELSE /\ left
                   /\ blobs' = blobs \cup {path}
                   /\ apiusage' = apiusage
                   /\ Reply(r, [q EXCEPT !.pc = "upload_commit",
                                         !.path = path])
    /\ UNCHANGED <<users, projects, apikeys, files, now, deleted, started,
                   script>>

\* upload_file, from session.add(db_file) on
upload_file_commit(r) ==
    /\ req[r].pc = "upload_commit"
    /\ \E fp \in FaultPoints({"commit", "track"}) :
         LET q == req[r] IN
           /\ faults' = Hit(fp)
           /\ IF ~CommitOk(q, fp = "commit")
              THEN /\ files' = files
                   /\ Except(r, [q EXCEPT !.sess = "inactive",
                                          !.note = "commit_failed"])
              ELSE /\ files' = Insert(files, FileRow(q.path, q.proj, q.user))
                   /\ Track(r, [q EXCEPT !.made = NextId(files)], 200,
                            fp = "track")
    /\ UNCHANGED <<users, projects, apikeys, blobs, now, deleted, started,
                   script>>

\* a listing without the project filter
FilesOfAnyProject(pid) == DOMAIN files

\* select(File).where(File.project_id == project.id)
FilesOfProject(pid) == {i \in DOMAIN files : files[i].project_id = pid}

list_files(r) ==
    /\ req[r].pc = "handler" /\ req[r].op = "list_files"
    /\ \E fp \in FaultPoints({"track"}) :
         /\ faults' = Hit(fp)
         /\ Track(r, [req[r] EXCEPT !.result = FilesOfProject(req[r].proj)],
                  200, fp = "track")
    /\ UNCHANGED <<users, projects, apikeys, files, blobs, now, deleted,
                   started, script>>

\* delete_file: 404 if not file, 403 if file.project_id != project.id
FileAccess(fid, pid) ==
    IF ~Exists(files, fid) THEN 404
    ELSE IF files[fid].project_id # pid THEN 403 ELSE 0

\* the relation of the file `fid` to the project `pid`
FileScope(fid, pid) ==
    IF fid \notin DOMAIN files THEN "absent"
    ELSE IF files[fid].project_id # pid THEN "foreign" ELSE "own"

\* delete_file, up to the project check
delete_file_check(r) ==
    /\ req[r].pc = "handler" /\ req[r].op = "delete_file"
    /\ \E fp \in FaultPoints({"track"}) :
         LET q == [req[r] EXCEPT !.seen = FileScope(req[r].arg, req[r].proj)]
             st == FileAccess(q.arg, q.proj) IN
           IF st # 0
           THEN /\ faults' = Hit(fp)
                /\ Track(r, q, st, fp = "track")
           ELSE /\ fp = "none"
                /\ faults' = faults
                /\ apiusage' = apiusage
                /\ Reply(r, [q EXCEPT !.pc = "delete_commit",
                                      !.path = files[q.arg].storage_path])
    /\ UNCHANGED <<users, projects, apikeys, files, blobs, now, deleted,
                   started, script>>

\* delete_file, from file_path.unlink() on
delete_file_commit(r) ==
    /\ req[r].pc = "delete_commit"
    /\ \E fp \in FaultPoints({"commit", "track"}) :
         LET q == req[r] IN
           /\ faults' = Hit(fp)
           /\ blobs' = blobs \ {q.path}
           /\ IF ~CommitOk(q, fp = "commit")
              THEN /\ files' = files
                   /\ Except(r, [q EXCEPT !.sess = "inactive",
                                          !.note = "commit_failed"])
              ELSE /\ files' = Delete(files, q.arg)
                   /\ Track(r, q, 204, fp = "track")
           /\ deleted' = IF CommitOk(q, fp # "none") THEN deleted \cup {q.arg}
                         ELSE deleted
    /\ UNCHANGED <<users, projects, apikeys, now, started, script>>

\* upload_file_frontend: request.state.user is the FirebaseUser that
\* check_role stored; reading an attribute it does not have raises
FrontendUploadAccess(pid, cu) ==
    IF ~Exists(projects, pid) THEN 403
    ELSE IF "firebase_uid" \notin DOMAIN cu THEN 500
    ELSE IF projects[pid].user_firebase_uid # cu.firebase_uid THEN 403 ELSE 0

upload_file_frontend(r) ==
    /\ req[r].pc = "handler" /\ req[r].op = "upload_file_frontend"
    /\ \E name \in FileNames :
         LET q == [req[r] EXCEPT
                     !.seen = Ownership(projects, req[r].arg, req[r].cred)]
             cu == FirebaseUser(q.cred, q.roles)
             st == FrontendUploadAccess(q.arg, cu)
             path == StoragePath(q.arg, now, name) IN
           IF st # 0
           THEN /\ Reply(r, Done(q, st))
                /\ UNCHANGED <<files, blobs>>
           ELSE /\ blobs' = blobs \cup {path}
                /\ files' = Insert(files,
                                   FileRow(path, q.arg, cu.firebase_uid))
                /\ Reply(r, Done([q EXCEPT !.made = NextId(files)], 200))
    /\ UNCHANGED <<users, projects, apikeys, apiusage, now, deleted, faults,
                   started, script>>

\* list_files_frontend
FrontendListAccess(pid, cu) ==
    IF ~Exists(projects, pid) \/ projects[pid].user_firebase_uid # cu.uid
    THEN 403 ELSE 0

list_files_frontend(r) ==
    /\ req[r].pc = "handler" /\ req[r].op = "list_files_frontend"
    /\ LET q == [req[r] EXCEPT
                   !.seen = Ownership(projects, req[r].arg, req[r].cred)]
           st == FrontendListAccess(q.arg, FirebaseUser(q.cred, q.roles)) IN
         Reply(r, IF st # 0 THEN Done(q, st)
                  ELSE Done([q EXCEPT !.result = FilesOfProject(q.arg)], 200))
    /\ UNCHANGED <<db, now, deleted, faults, started, script>>

\* delete_file_frontend
FrontendDeleteAccess(fid, cu) ==
    IF ~Exists(files, fid) THEN 404
    ELSE IF "firebase_uid" \notin DOMAIN cu THEN 500
    ELSE IF files[fid].user_firebase_uid # cu.firebase_uid THEN 403 ELSE 0

delete_file_frontend(r) ==
    /\ req[r].pc = "handler" /\ req[r].op = "delete_file_frontend"
    /\ LET q == [req[r] EXCEPT
                   !.seen = Ownership(files, req[r].arg, req[r].cred)]
           st == FrontendDeleteAccess(q.arg, FirebaseUser(q.cred, q.roles)) IN
         IF st # 0
         THEN /\ Reply(r, Done(q, st))
              /\ UNCHANGED <<files, blobs, deleted>>
         ELSE /\ blobs' = blobs \ {files[q.arg].storage_path}
              /\ files' = Delete(files, q.arg)
              /\ deleted' = deleted \cup {q.arg}
              /\ Reply(r, Done(q, 204))
    /\ UNCHANGED <<users, projects, apikeys, apiusage, now, faults, started,
                   script>>

\* get_file_public: 404 if not file, 404 if not file_path.exists()
PublicAccess(fid) ==
    IF ~Exists(files, fid) THEN 404
    ELSE IF files[fid].storage_path \notin blobs THEN 404 ELSE 200

get_file_public(r, ops, n) ==
    /\ \E q \in Arrivals(r, ops \cap PublicOps, n) :
         /\ Reply(r, Done([q EXCEPT !.result =
                              IF PublicAccess(q.arg) = 200
                              THEN {files[q.arg].storage_path} ELSE {}],
                          PublicAccess(q.arg)))
         /\ Count(q)
    /\ UNCHANGED <<db, now, deleted, faults, script>>

\* ------------------------------------- the API-key routes that record no usage
\* projects.py get_project_info
get_project_info(r) ==
    /\ req[r].pc = "handler" /\ req[r].op = "get_project_info"
    /\ Reply(r, Done(req[r], 200))
    /\ UNCHANGED <<db, now, deleted, faults, started, script>>

\* -------------------------------------------------------------- routes/usage.py
\* timedelta(days=30), and the default of `days`, in ticks
Window == 30

\* a float as a fraction; SQL NULL and Python None as the fraction 0/0
Ratio(n, d) == [num |-> n, den |-> d]

Null == Ratio(0, 0)

\* a value passed on as the query returned it
NoDefault(x, d) == x

\* x or d: None and 0.0 are both false
OrDefault(x, d) == IF x.num = 0 THEN d ELSE x

RECURSIVE SumTime(_)
\* func.sum(ApiUsage.response_time) over the rows I
SumTime(I) ==
    IF I = {} THEN 0
    ELSE LET i == CHOOSE j \in I : TRUE IN
           apiusage[i].response_time + SumTime(I \ {i})

\* func.avg(ApiUsage.response_time): NULL over no rows
SqlAvg(I) == IF I = {} THEN Null ELSE Ratio(SumTime(I), Cardinality(I))

\* func.sum(case((status_code < 400, 1), else_=0)) * 100.0 / func.count(id):
\* NULL over no rows
SqlSuccessRate(I) ==
    IF I = {} THEN Null
    ELSE Ratio(100 * Cardinality({i \in I : apiusage[i].status_code < 400}),
               Cardinality(I))

\* the ApiUsageStats built from the aggregate over the rows I
ApiUsageStats(date, I) ==
    [date |-> date, api_calls |-> Cardinality(I),
     avg_response_time |-> OrDefault(SqlAvg(I), Ratio(0, 1)),
     success_rate |-> OrDefault(SqlSuccessRate(I), Ratio(100, 1))]

\* a change that saturates at 0 whenever there is no previous request
ChangeWithoutSentinel(current, previous) ==
    IF previous > 0 THEN Ratio((current - previous) * 100, previous)
    ELSE Ratio(0, 1)

\* get_dashboard_stats, change_percentage
ChangePercentage(current, previous) ==
    IF previous > 0 THEN Ratio((current - previous) * 100, previous)
    ELSE IF current = 0 THEN Ratio(0, 1) ELSE Ratio(100, 1)

\* the usage rows of the user with a timestamp from lo to hi, hi included
\* or not
UsageIn(uid, lo, hi, closed) ==
    {i \in DOMAIN apiusage :
        /\ apiusage[i].user_firebase_uid = uid
        /\ apiusage[i].timestamp >= lo
        /\ IF closed THEN apiusage[i].timestamp <= hi
           ELSE apiusage[i].timestamp < hi}

get_dashboard_stats(r) ==
    /\ req[r].pc = "handler" /\ req[r].op = "get_dashboard_stats"
    /\ LET q == req[r]
           uid == FirebaseUser(q.cred, q.roles).uid
           current == Cardinality(UsageIn(uid, now - Window, now, TRUE))
           previous == Cardinality(UsageIn(uid, now - 2 * Window,
                                           now - Window, FALSE)) IN
         Reply(r, Done([q EXCEPT !.stats =
            [total_files |-> Cardinality({i \in DOMAIN files :
                                files[i].user_firebase_uid = uid}),
             total_api_requests |-> current,
             api_requests_change |-> ChangePercentage(current, previous)]],
            200))
    /\ UNCHANGED <<db, now, deleted, faults, started, script>>

\* get_usage_stats without the date filters: one ApiUsageStats per date
get_usage_stats(r) ==
    /\ req[r].pc = "handler" /\ req[r].op = "get_usage_stats"
    /\ LET q == req[r]
           uid == FirebaseUser(q.cred, q.roles).uid
           rows == {i \in DOMAIN apiusage :
                      /\ apiusage[i].user_firebase_uid = uid
                      /\ q.arg # 0 => apiusage[i].project_id = q.arg}
           dates == {apiusage[i].timestamp : i \in rows} IN
         Reply(r, Done([q EXCEPT !.result =
            {ApiUsageStats(d, {i \in rows : apiusage[i].timestamp = d}) :
               d \in dates}], 200))
    /\ UNCHANGED <<db, now, deleted, faults, started, script>>

\* the usage rows of the key in the last `Window` ticks
KeyWindow(kid) ==
    {i \in DOMAIN apiusage :
        /\ apiusage[i].api_key_id = kid
        /\ apiusage[i].timestamp >= now - Window
        /\ apiusage[i].timestamp <= now}

\* get_api_key_stats: it records no usage
get_api_key_stats(r) ==
    /\ req[r].pc = "handler" /\ req[r].op = "get_api_key_stats"
    /\ Reply(r, Done([req[r] EXCEPT !.stats =
                        ApiUsageStats(now, KeyWindow(req[r].key))], 200))
    /\ UNCHANGED <<db, now, deleted, faults, started, script>>

\* ---------------------------------------------------------- specifications
AllOps == BearerOps \cup RoleOps \cup UsageOps \cup KeyOps \cup BothOps
          \cup PublicOps

\* every route
Next ==
    \/ Tick
    \/ \E r \in Slots :
         \/ ResolveLookup(r, AllOps, MaxRequests) \/ ResolveInsert(r)
         \/ CheckRole(r, AllOps, MaxRequests)
         \/ KeyAuth(r, AllOps, MaxRequests)
         \/ create_project(r) \/ get_project(r) \/ delete_project(r)
         \/ create_api_key_check(r) \/ create_api_key_insert(r)
         \/ get_api_keys(r) \/ delete_api_key(r)
         \/ upload_file_write(r) \/ upload_file_commit(r) \/ list_files(r)
         \/ delete_file_check(r) \/ delete_file_commit(r)
         \/ upload_file_frontend(r) \/ list_files_frontend(r)
         \/ delete_file_frontend(r) \/ get_project_info(r)
         \/ get_file_public(r, AllOps, MaxRequests)
         \/ get_dashboard_stats(r) \/ get_usage_stats(r)
         \/ get_api_key_stats(r)

Spec == Init /\ [][Next]_vars

\* principal resolution: bearer requests that read or create a project
ResolveOps == {"get_project", "create_project"}

NextResolve ==
    \/ Tick
    \/ \E r \in Slots :
         \/ ResolveLookup(r, ResolveOps, MaxRequests) \/ ResolveInsert(r)
         \/ create_project(r) \/ get_project(r)

SpecResolve == Init /\ [][NextResolve]_vars

\* the routes behind get_api_key_user alone
NextKey ==
    \/ Tick
    \/ \E r \in Slots :
         \/ KeyAuth(r, KeyOps, MaxRequests)
         \/ upload_file_write(r) \/ upload_file_commit(r) \/ list_files(r)
         \/ delete_file_check(r) \/ delete_file_commit(r)
         \/ get_project_info(r)

SpecKey == Init /\ [][NextKey]_vars

\* the resolution of the X-API-Key header, before a handler that records
\* usage and one that does not
AuthOps == {"list_files", "get_project_info"}

NextAuth ==
    \/ Tick
    \/ \E r \in Slots :
         \/ KeyAuth(r, AuthOps, MaxRequests)
         \/ list_files(r) \/ get_project_info(r)

SpecAuth == Init /\ [][NextAuth]_vars

\* the handlers that record usage, within one tick
TrackOps == {"upload_file", "list_files", "delete_file"}

NextTrack ==
    \E r \in Slots :
       \/ KeyAuth(r, TrackOps, MaxRequests)
       \/ upload_file_write(r) \/ upload_file_commit(r) \/ list_files(r)
       \/ delete_file_check(r) \/ delete_file_commit(r)

SpecTrack == Init /\ [][NextTrack]_vars

\* the usage log under the handlers that record usage and the deletions of
\* the rows it references, within one tick
LogOps == TrackOps \cup {"delete_api_key", "delete_project"}

NextLog ==
    \E r \in Slots :
       \/ ResolveLookup(r, LogOps, MaxRequests) \/ ResolveInsert(r)
       \/ KeyAuth(r, LogOps, MaxRequests)
       \/ upload_file_write(r) \/ upload_file_commit(r) \/ list_files(r)
       \/ delete_file_check(r) \/ delete_file_commit(r)
       \/ delete_api_key(r) \/ delete_project(r)

SpecLog == Init /\ [][NextLog]_vars

\* uploads and deletions through API keys and public downloads, one request
\* more
RaceOps == {"upload_file", "delete_file", "get_file_public"}

NextRace ==
    \/ Tick
    \/ \E r \in Slots :
         \/ KeyAuth(r, RaceOps, MaxRequests + 1)
         \/ upload_file_write(r) \/ upload_file_commit(r)
         \/ delete_file_check(r) \/ delete_file_commit(r)
         \/ get_file_public(r, RaceOps, MaxRequests + 1)

SpecRace == Init /\ [][NextRace]_vars

\* the statistics of routes/usage.py over a usage log of earlier requests
StatsOps == UsageOps \cup BothOps

\* the timestamps of the earlier requests: the first and the last tick of the
\* previous window and of the current one
Stamps == {0, Window - 1, Window, 2 * Window}

\* the rows that list_files (200) and delete_file (404) of either tenant left
StatsRows ==
    {[endpoint |-> <<"/api/v1/files/list", 0>>, status_code |-> c,
      timestamp |-> t, response_time |-> 1, user_firebase_uid |-> o[1],
      project_id |-> o[2], api_key_id |-> o[2]] :
        c \in {200, 404}, t \in Stamps, o \in {<<"u1", 1>>, <<"u2", 2>>}}

\* the logs of at most MaxRows rows, in the order of their timestamps
StatsLogs ==
    {log \in UNION {[1..n -> StatsRows] : n \in 0..MaxRows} :
        \A i \in DOMAIN log, j \in DOMAIN log :
            i < j => log[i].timestamp <= log[j].timestamp}

InitStats ==
    /\ users = [u \in UIDs |-> 1]
    /\ projects = (1 :> [user_firebase_uid |-> "u1"])
                  @@ (2 :> [user_firebase_uid |-> "u2"])
    /\ apikeys = (1 :> KeyRow(1, TRUE, "u1", 1))
                 @@ (2 :> KeyRow(2, TRUE, "u2", 2))
    /\ files = (1 :> FileRow(<<1, 0, "a">>, 1, "u1"))
    /\ blobs = {<<1, 0, "a">>}
    /\ apiusage \in StatsLogs
    /\ now = 2 * Window
    /\ faults = 0
    /\ started = 0
    /\ req = [r \in Slots |-> IdleReq]
    /\ resp = IdleReq
    /\ deleted = {}
    /\ script = NoScript

\* one request of the statistics in a behaviour: they are read-only
NextStats ==
    \E r \in Slots :
       \/ CheckRole(r, StatsOps, 1) \/ KeyAuth(r, StatsOps, 1)
       \/ get_dashboard_stats(r) \/ get_usage_stats(r)
       \/ get_api_key_stats(r)

SpecStats == InitStats /\ [][NextStats]_vars

\* the end-to-end sequence of one client, alone, while disk and database
\* do not fail: create project P, create key K for P, upload F with K, list,
\* delete F, list, dashboard
ScriptOps == <<"create_project", "create_api_key", "upload_file",
               "list_files", "delete_file", "list_files",
               "get_dashboard_stats">>

LastStep == Len(ScriptOps)

\* the answer to request k of the sequence is the stated one
Expected(k) ==
    /\ resp.pc = "done"
    /\ CASE k = 1 -> resp.op = "create_project" /\ resp.status = 201
         [] k = 2 -> resp.op = "create_api_key" /\ resp.status = 201
         [] k = 3 -> resp.op = "upload_file" /\ resp.status = 200
         [] k = 4 -> /\ resp.op = "list_files" /\ resp.status = 200
                     /\ resp.result = {script.F}
         [] k = 5 -> resp.op = "delete_file" /\ resp.status = 204
         [] k = 6 -> /\ resp.op = "list_files" /\ resp.status = 200
                     /\ resp.result = {}
         [] k = 7 -> /\ resp.op = "get_dashboard_stats" /\ resp.status = 200
                     /\ resp.stats.total_files = 0
         [] OTHER -> FALSE

\* the script once the client has read the ids of the last answer
Learned ==
    [script EXCEPT !.P = IF script.step = 2 THEN resp.made ELSE @,
                   !.K = IF script.step = 3 THEN resp.made ELSE @,
                   !.F = IF script.step = 4 THEN resp.made ELSE @]

\* request k of the sequence
ScriptRequest(k) ==
    LET m == Learned IN
      CASE k = 1 -> NewReq(ScriptOps[k], m.U, 0, 0)
        [] k = 2 -> NewReq(ScriptOps[k], m.U, 0, m.P)
        [] k = 3 -> NewReq(ScriptOps[k], NoUid, m.K, 0)
        [] k = 4 -> NewReq(ScriptOps[k], NoUid, m.K, 0)
        [] k = 5 -> NewReq(ScriptOps[k], NoUid, m.K, m.F)
        [] k = 6 -> NewReq(ScriptOps[k], NoUid, m.K, 0)
        [] OTHER -> NewReq(ScriptOps[k], m.U, 0, 0)

\* the client sends its next request, of the operations `ops`, once the
\* answer to the last one is the stated one
Send(r, ops) ==
    IF /\ r = 1 /\ req[r].pc = "idle"
       /\ script.step \in 1..LastStep
       /\ script.step > 1 => Expected(script.step - 1)
       /\ ScriptRequest(script.step).op \in ops
    THEN {ScriptRequest(script.step)} ELSE {}

Sent == script' = [Learned EXCEPT !.step = @ + 1]

\* the client reads the last answer
ScriptFinish ==
    /\ script.step = LastStep + 1 /\ Expected(LastStep)
    /\ script' = [script EXCEPT !.step = @ + 1]
    /\ UNCHANGED <<db, now, faults, started, req, resp, deleted>>

\* the identity of the client holds a role that passes the gate
ScriptRoles == RoleSets \ {{}}

\* the client is a principal, known or not yet, that has no file
InitScenario ==
    /\ Seeds
    /\ apiusage = <<>>
    /\ now = 0
    /\ faults = MaxFaults
    /\ started = 0
    /\ req = [r \in Slots |-> IdleReq]
    /\ resp = IdleReq
    /\ deleted = {}
    /\ \E u \in UIDs :
         /\ \A i \in DOMAIN files : files[i].user_firebase_uid # u
         /\ script = [NoScript EXCEPT !.step = 1, !.U = u]

NextScenario ==
    \/ ScriptFinish
    \/ \E r \in Slots :
         \/ ResolveLookupOf(r, Send(r, BearerOps)) /\ Sent
         \/ ResolveInsert(r)
         \/ create_project_for(r, {script.U})
         \/ create_api_key_check(r) \/ create_api_key_insert(r)
         \/ KeyAuthOf(r, Send(r, KeyOps)) /\ Sent
         \/ upload_file_write(r) \/ upload_file_commit(r) \/ list_files(r)
         \/ delete_file_check(r) \/ delete_file_commit(r)
         \/ CheckRoleOf(r, Send(r, UsageOps), ScriptRoles) /\ Sent
         \/ get_dashboard_stats(r)

SpecScenario ==
    InitScenario /\ [][NextScenario]_vars /\ WF_vars(NextScenario)

\* the life cycle of projects, keys and files: the operations that create
\* and delete them, from a database whose keys and files belong to the owner
\* of their project
LifeOps == {"create_project", "create_api_key", "delete_api_key",
            "delete_project", "upload_file", "upload_file_frontend",
            "delete_file", "delete_file_frontend"}

\* the row is bound to a stored project and carries the owner of that project,
\* a stored user
OwnedAsProject(row) ==
    /\ Exists(projects, row.project_id)
    /\ row.user_firebase_uid = projects[row.project_id].user_firebase_uid
    /\ UserFound(row.user_firebase_uid)

InitLife ==
    /\ Init
    /\ \A k \in DOMAIN apikeys : OwnedAsProject(apikeys[k])

\* one request after the other
NextLife ==
    \/ ResolveLookup(1, LifeOps, MaxRequests) \/ ResolveInsert(1)
    \/ CheckRole(1, LifeOps, MaxRequests)
    \/ KeyAuth(1, LifeOps, MaxRequests)
    \/ create_project(1) \/ delete_project(1)
    \/ create_api_key_check(1) \/ create_api_key_insert(1)
    \/ delete_api_key(1)
    \/ upload_file_write(1) \/ upload_file_commit(1)
    \/ delete_file_check(1) \/ delete_file_commit(1)
    \/ upload_file_frontend(1) \/ delete_file_frontend(1)

SpecLife == InitLife /\ [][NextLife]_vars

\* ------------------------------------------------------------------- claims
\* the X-API-Key headers that get_api_key_user must reject
BadCredentials == {"missing", "unknown", "inactive", "dangling"}

\* C1: whatever the interleaving of the lookups and inserts of concurrent
\* resolutions, no subject_id has two Principal rows, and a request that
\* resolution let through has exactly one.
C1_OnePrincipalPerSubject ==
    /\ \A u \in UIDs : users[u] <= 1
    /\ \A r \in Slots : req[r].user # NoUid => users[req[r].user] = 1

\* two resolutions of the same unseen subject_id both missed the lookup; one
\* has inserted the row and the other's insert has just been rejected
C1_RaceLost ==
    /\ resp.pc = "done" /\ resp.note = "duplicate"
    /\ users[resp.cred] = 1

\* C2: a resolution whose insert is rejected because a concurrent request
\* inserted the same subject_id returns the existing Principal and never
\* answers 500.
C2_LoserRereads ==
    resp.pc = "done" /\ resp.note = "duplicate"
        => resp.status # 500 /\ resp.user = resp.cred

\* C3: the resolution of a token whose stored key is inactive answers 401
\* with the detail it gives for a token no key has; it yields no triple and
\* the handler does not run.
C3_InactiveKeyRejected ==
    /\ \A r \in Slots : req[r].credk # "inactive"
    /\ resp.credk \in {"inactive", "unknown"} =>
          /\ resp.status = 401
          /\ resp.detail = "Invalid or inactive API key"
          /\ resp.key = 0 /\ resp.tracked = 0

C3_InactiveSeen ==
    /\ resp.pc = "done" /\ resp.credk = "inactive" /\ resp.status = 401
    /\ \E k \in DOMAIN apikeys :
          apikeys[k].key = resp.token /\ ~apikeys[k].is_active

\* the bearer handlers that look a project, key or file up by id
C4Ops == {"get_project", "delete_project", "get_project_stats",
          "create_api_key", "get_api_keys", "delete_api_key",
          "upload_file_frontend", "list_files_frontend",
          "delete_file_frontend"}

\* C4: a bearer request for a project, key or file by id answers 404 when no
\* row has the id and 403 when the row belongs to another principal.
C4_NotFoundThenForbidden ==
    resp.pc = "done" /\ resp.op \in C4Ops =>
        /\ resp.seen = "absent" => resp.status = 404
        /\ resp.seen = "foreign" => resp.status = 403

\* C5: a request that passed API key resolution has appended exactly one
\* usage row when it is answered.
C5_OneUsageRowPerRequest ==
    resp.pc = "done" /\ resp.key # 0 => resp.tracked = 1

\* the usage row the answered request appended last
LastRow == apiusage[Len(apiusage)]

\* C6: an upload_file that answers 200 has appended exactly one usage row,
\* with status 200 and the project, owner and key of the triple; one that
\* fails with an exception has appended exactly one, with status 500 and
\* the project of the triple.
C6_UploadRecorded ==
    resp.pc = "done" /\ resp.op = "upload_file" /\ resp.key # 0 =>
        /\ resp.status \in {200, 500}
        /\ resp.tracked = 1
        /\ Len(apiusage) > 0
        /\ LastRow.status_code = resp.status
        /\ LastRow.project_id = resp.proj
        /\ resp.status = 200 =>
              /\ LastRow.user_firebase_uid = resp.user
              /\ LastRow.api_key_id = resp.key

\* C7: when track_api_usage fails to persist the row of an upload whose File
\* row is stored, the request still answers 200 and the File row stays.
C7_RecorderFailureSwallowed ==
    resp.pc = "done" /\ resp.op = "upload_file" /\ resp.note = "track_failed"
        => resp.status = 200 /\ resp.made \in DOMAIN files

\* C8: when the commit of last_used_at fails for a valid, active key, the
\* resolution still returns the triple and the request is not failed.
C8_LastUsedBestEffort ==
    resp.pc = "done" /\ resp.note = "lastused_failed"
        => resp.key # 0 /\ resp.status # 500

\* C9: a request whose API key resolution fails (missing, unknown, inactive
\* or dangling key) appends no usage row and never reaches a handler.
C9_NoUsageOnFailedResolution ==
    /\ \A r \in Slots : req[r].credk \notin BadCredentials
    /\ resp.credk \in BadCredentials =>
          resp.status \in {401, 500} /\ resp.key = 0 /\ resp.tracked = 0

C9_DanglingRejected ==
    /\ resp.pc = "done" /\ resp.credk = "dangling" /\ resp.status = 401
    /\ resp.tracked = 0

\* rows of the file table that a step adds, removes or changes
Touched ==
    {i \in DOMAIN files \cup DOMAIN files' :
        i \notin DOMAIN files \/ i \notin DOMAIN files' \/ files[i] # files'[i]}

\* C10 (its last sentence): a step of a request that holds the key of project
\* P adds and removes only File rows of project P and only blobs under P's
\* directory.
C10_ProjectConfinement ==
    [][\A r \in Slots :
          req[r].key # 0 /\ req'[r] # req[r] =>
             /\ \A i \in Touched :
                   /\ i \in DOMAIN files => files[i].project_id = req[r].proj
                   /\ i \in DOMAIN files' => files'[i].project_id = req[r].proj
             /\ \A b \in (blobs \ blobs') \cup (blobs' \ blobs) :
                   b[1] = req[r].proj]_vars

\* C11: a file deletion that answers 204 leaves neither the File row nor its
\* blob, and every later public download of that file id answers 404.
C11_DeletedStaysGone ==
    /\ resp.pc = "done" /\ resp.status = 204
       /\ resp.op \in {"delete_file", "delete_file_frontend"} =>
          resp.arg \notin DOMAIN files /\ resp.path \notin blobs
    /\ resp.pc = "done" /\ resp.op = "get_file_public"
       /\ resp.arg \in deleted => resp.status = 404

\* C12: in every state, every File row has a blob at its storage_path.
C12_NoRecordWithoutBlob ==
    \A i \in DOMAIN files : files[i].storage_path \in blobs

\* C13: delete_project by the owner of a project succeeds and removes the
\* project together with every API key, File row and usage row of the
\* project; afterwards no row references the project id.
C13_DeleteProjectCascades ==
    resp.pc = "done" /\ resp.op = "delete_project" /\ resp.seen = "own" =>
        /\ resp.status = 204
        /\ resp.arg \notin DOMAIN projects
        /\ ~HasChildren(resp.arg)

\* C14: on a role-gated route, an identity with neither "whitelisted" nor
\* "developer" is answered 403 before the handler; an identity with
\* "developer" is never rejected by the role check.
C14_RoleGate ==
    resp.pc = "done" /\ resp.note = "norole" =>
        resp.status = 403 /\ "developer" \notin resp.roles

\* two fractions are the same number
Same(x, y) == x.den > 0 /\ y.den > 0 /\ x.num * y.den = y.num * x.den

\* C15: api_requests_change is ((current - previous) / previous) * 100 when
\* previous > 0, 0 when both counts are 0 and 100 when only previous is 0
\* (0,0 gives 0; 0,5 gives 100; 10,15 gives 50), for the counts of the
\* user's requests in the last Window ticks and in the Window before.
C15_ChangePercentage ==
    /\ Same(ChangePercentage(0, 0), Ratio(0, 1))
    /\ Same(ChangePercentage(5, 0), Ratio(100, 1))
    /\ Same(ChangePercentage(15, 10), Ratio(50, 1))
    /\ resp.pc = "done" /\ resp.op = "get_dashboard_stats"
       /\ resp.status = 200 =>
          LET c == Cardinality(UsageIn(resp.cred, now - Window, now, TRUE))
              p == Cardinality(UsageIn(resp.cred, now - 2 * Window,
                                       now - Window, FALSE))
              x == resp.stats.api_requests_change IN
            /\ resp.stats.total_api_requests = c
            /\ p > 0 => Same(x, Ratio((c - p) * 100, p))
            /\ p = 0 /\ c = 0 => Same(x, Ratio(0, 1))
            /\ p = 0 /\ c > 0 => Same(x, Ratio(100, 1))

\* a dashboard answered for a user whose requests dropped from the previous
\* window to the current one
C15_DropSeen ==
    /\ resp.pc = "done" /\ resp.op = "get_dashboard_stats"
    /\ resp.status = 200
    /\ UsageIn(resp.cred, now - 2 * Window, now - Window, FALSE) # {}
    /\ resp.stats.api_requests_change.num < 0

\* C16: get_api_key_stats over a window with no usage row of the key answers
\* 200 with api_calls 0, avg_response_time 0 and success_rate 100.
C16_EmptyWindow ==
    resp.pc = "done" /\ resp.op = "get_api_key_stats" /\ resp.key # 0
    /\ KeyWindow(resp.key) = {} =>
        /\ resp.status = 200
        /\ resp.stats.api_calls = 0
        /\ Same(resp.stats.avg_response_time, Ratio(0, 1))
        /\ Same(resp.stats.success_rate, Ratio(100, 1))

\* the statistics of a key were answered while the log held rows, none of
\* them a row of the key in the window
C16_EmptyWindowSeen ==
    /\ resp.pc = "done" /\ resp.op = "get_api_key_stats" /\ resp.key # 0
    /\ resp.status = 200
    /\ KeyWindow(resp.key) = {} /\ apiusage # <<>>

\* 100 * (rows with status_code < 400) / (rows), over the rows I
RateOf(I) ==
    Ratio(100 * Cardinality({i \in I : apiusage[i].status_code < 400}),
          Cardinality(I))

\* C17: the success_rate of a window or a day with at least one usage row is
\* 100 times the rows with status_code < 400 over the rows; it is 0 when
\* every row has status_code >= 400.
C17_SuccessRate ==
    /\ resp.pc = "done" /\ resp.op = "get_api_key_stats" /\ resp.key # 0
       /\ KeyWindow(resp.key) # {} =>
          Same(resp.stats.success_rate, RateOf(KeyWindow(resp.key)))
    /\ resp.pc = "done" /\ resp.op = "get_usage_stats"
       /\ resp.status = 200 =>
          \A e \in resp.result :
             Same(e.success_rate,
                  RateOf({i \in DOMAIN apiusage :
                            /\ apiusage[i].user_firebase_uid = resp.cred
                            /\ apiusage[i].timestamp = e.date
                            /\ resp.arg # 0 =>
                                  apiusage[i].project_id = resp.arg}))

\* C18: the usage row of a request that passed API key resolution and was
\* answered by its handler carries the status code of the response, and the
\* request has no second row.
C18_RecordedStatusIsFinal ==
    resp.pc = "done" /\ resp.key # 0 /\ resp.tracked > 0 =>
        /\ resp.tracked = 1
        /\ Len(apiusage) > 0
        /\ LastRow.status_code = resp.status
        /\ LastRow.api_key_id = resp.key
        /\ LastRow.endpoint = EndpointOf(resp)

\* a delete_file of a file of another project was answered 403 and recorded
C18_ForbiddenRecorded ==
    /\ resp.pc = "done" /\ resp.op = "delete_file" /\ resp.status = 403
    /\ resp.seen = "foreign" /\ resp.tracked = 1
    /\ LastRow.status_code = 403

\* C20: no step changes or removes a usage row; every step leaves the log as
\* it was or longer by rows at its end.
C20_AppendOnly ==
    [][/\ Len(apiusage') >= Len(apiusage)
       /\ SubSeq(apiusage', 1, Len(apiusage)) = apiusage]_vars

\* the owner's deletion of an API key that usage rows reference was refused
\* and the rows are in the log
C20_KeyDeleteRefused ==
    /\ resp.pc = "done" /\ resp.op = "delete_api_key" /\ resp.seen = "own"
    /\ resp.status = 500
    /\ KeyChildren(resp.arg) # {}

\* C19: the sequence create project, create key, upload, list (exactly the
\* uploaded file), delete, list (nothing), dashboard (total_files 0), run by
\* a principal that had no file, gets to its end with every answer the
\* stated one.
C19_ScenarioCompletes == <>(script.step = LastStep + 2)

\* the client has read the dashboard that reports no file, after its upload
\* was listed and deleted
C19_ScenarioDone ==
    /\ script.step = LastStep + 2
    /\ script.F \in deleted /\ script.F \notin DOMAIN files
    /\ script.K \in DOMAIN apikeys /\ script.P \in DOMAIN projects
    /\ Len(apiusage) = 4

\* C21: on the bearer path, an upload by a role-cleared principal into a
\* project the principal owns succeeds and stores one File row with that
\* project_id and the principal's subject id; an upload into a project of
\* another principal answers 403 and stores no File row.
C21_FrontendUpload ==
    resp.pc = "done" /\ resp.op = "upload_file_frontend"
    /\ resp.note # "norole" =>
        /\ resp.seen = "own" =>
              /\ resp.status \in {200, 201}
              /\ resp.made \in DOMAIN files
              /\ files[resp.made].project_id = resp.arg
              /\ files[resp.made].user_firebase_uid = resp.cred
        /\ resp.seen = "foreign" => resp.status = 403 /\ resp.made = 0

\* C22: the removal of a file deletion acts on the state its check saw: the
\* step that unlinks the blob, deletes the row and answers finds the File row
\* it checked still stored, so that of two concurrent deletions of one file id
\* the later one answers 404 and removes nothing.
C22_DeleteActsOnCurrentState ==
    [][\A r \in Slots :
          req[r].pc = "delete_commit" /\ req'[r] # req[r] =>
             /\ req[r].arg \in DOMAIN files
             /\ files[req[r].arg].storage_path = req[r].path]_vars

\* C23: a request whose API key resolution fails leaves the apikey table as
\* it was; in particular the rejection of a key whose owner or project is
\* missing does not change the key's last_used_at.
C23_FailedResolutionKeepsKeys ==
    [][resp'.pc = "done" /\ resp'.credk \in BadCredentials
          => apikeys' = apikeys]_vars

====
